---- MODULE Spec2Model ----
(***************************************************************************)
(* Model of the PDF outline extractor: main.py (batch driver) and          *)
(* processor.py (the heading pipeline process_pdf, scored_threshold,       *)
(* detect_title, assign_levels).                                           *)
(*                                                                         *)
(* Representation.                                                         *)
(*  - A text is a sequence of characters, each character a one-element     *)
(*    string.  The CJK characters of NUM_PAT are written by code point     *)
(*    ("U+7B2C" is the ordinal prefix, "U+7AE0" the chapter sign).         *)
(*  - Vertical positions (top) are in half points, so that x.5 values and  *)
(*    Python's round() on them can be told apart; horizontal positions     *)
(*    and font sizes are in points.                                        *)
(*  - Scores are in quarter points (every additive signal of score_lines   *)
(*    is a multiple of 0.25); mean + stdev is kept exact, as a pair        *)
(*    (mean fraction, variance fraction), never rounded.                   *)
(***************************************************************************)
EXTENDS Integers, Sequences, FiniteSets, TLC

VARIABLES
    pc,        \* position of the running function
    pages,     \* process_pdf: the document, one sequence of grouped lines per page
    meta,      \* process_pdf: (pdf.metadata or {}).get("Title", "")
    lines,     \* process_pdf: all_lines, then the filtered / merged lines
    scored,    \* process_pdf: result of score_lines
    cands,     \* process_pdf / assign_levels: the candidate sequence
    title,     \* process_pdf: result of detect_title
    outline,   \* assign_levels: the outline list
    dir,       \* main: names found in input_dir
    pdfs,      \* main: the sorted list of PDF paths
    idx,       \* main: position of the for loop in pdfs
    written,   \* main: the writes performed, in order
    files,     \* main: content of output_dir, by output file name
    stderr     \* main: the diagnostics printed

vars == <<pc, pages, meta, lines, scored, cands, title, outline,
          dir, pdfs, idx, written, files, stderr>>

\* ------------------------------------------------------------ bounds

\* assign_levels is explored on candidate sequences of at most MaxCands entries
MaxCands == 3
\* process_pdf is explored on documents of at most MaxPages pages ...
MaxPages == 2
\* ... holding at most MaxLines lines in total
MaxLines == 3

\* ------------------------------------------------------------ sequences

Range(s) == {s[i] : i \in DOMAIN s}

SeqsUpTo(S, n) == UNION {[1..k -> S] : k \in 0..n}

Min2(a, b) == IF a <= b THEN a ELSE b

Abs(a) == IF a < 0 THEN -a ELSE a

RECURSIVE SumSeq(_)
SumSeq(s) == IF s = <<>> THEN 0 ELSE Head(s) + SumSeq(Tail(s))

Reverse(s) == [i \in 1..Len(s) |-> s[Len(s) + 1 - i]]

\* sorted(set): the ascending sequence of a finite set of integers
RECURSIVE SortAsc(_)
SortAsc(S) ==
    IF S = {} THEN <<>>
    ELSE LET m == CHOOSE x \in S : \A y \in S : x <= y
         IN  <<m>> \o SortAsc(S \ {m})

\* ------------------------------------------------------------ str methods

UpperLetters ==
    <<"A","B","C","D","E","F","G","H","I","J","K","L","M",
      "N","O","P","Q","R","S","T","U","V","W","X","Y","Z">>

LowerLetters ==
    <<"a","b","c","d","e","f","g","h","i","j","k","l","m",
      "n","o","p","q","r","s","t","u","v","w","x","y","z">>

LowerChar(c) ==
    IF \E i \in DOMAIN UpperLetters : UpperLetters[i] = c
    THEN LowerLetters[CHOOSE i \in DOMAIN UpperLetters : UpperLetters[i] = c]
    ELSE c

\* str.lower()
StrLower(s) == [i \in 1..Len(s) |-> LowerChar(s[i])]

\* str.isspace() of one character
IsSpace(c) == c \in {" ", "\t", "\n"}

RECURSIVE LStrip(_)
LStrip(s) == IF s # <<>> /\ IsSpace(Head(s)) THEN LStrip(Tail(s)) ELSE s

RECURSIVE RStrip(_)
RStrip(s) ==
    IF s # <<>> /\ IsSpace(s[Len(s)]) THEN RStrip(SubSeq(s, 1, Len(s) - 1)) ELSE s

\* str.strip()
Strip(s) == LStrip(RStrip(s))

\* the first whitespace-delimited word of s (s starts with a non-space)
RECURSIVE FirstWord(_)
FirstWord(s) ==
    IF s = <<>> \/ IsSpace(Head(s)) THEN <<>>
    ELSE <<Head(s)>> \o FirstWord(Tail(s))

\* str.split(): the whitespace-delimited words of s
RECURSIVE Split(_)
Split(s) ==
    LET t == LStrip(s)
    IN  IF t = <<>> THEN <<>>
        ELSE LET w == FirstWord(t)
             IN  <<w>> \o Split(SubSeq(t, Len(w) + 1, Len(t)))

\* " ".join(words)
RECURSIVE JoinSpace(_)
JoinSpace(ws) ==
    IF ws = <<>> THEN <<>>
    ELSE IF Len(ws) = 1 THEN ws[1]
    ELSE ws[1] \o <<" ">> \o JoinSpace(Tail(ws))

\* " ".join(s.split())
Collapse(s) == JoinSpace(Split(s))

\* needle in hay
Contains(hay, needle) ==
    \E i \in 0..(Len(hay) - Len(needle)) :
        SubSeq(hay, i + 1, i + Len(needle)) = needle

\* ------------------------------------------------------------ NUM_PAT

Digits == {"0","1","2","3","4","5","6","7","8","9"}

RomanLetters == {"I","V","X","L","C","D","M"}

KanjiDigits ==
    {"U+4E00","U+4E8C","U+4E09","U+56DB","U+4E94","U+516D",
     "U+4E03","U+516B","U+4E5D","U+5341","U+767E","U+5343"}

\* [0-9]+(\.[0-9]+)*
IsDotted(s) ==
    /\ s # <<>>
    /\ \A i \in DOMAIN s : s[i] \in Digits \cup {"."}
    /\ s[1] \in Digits
    /\ s[Len(s)] \in Digits
    /\ \A i \in 1..(Len(s) - 1) : ~(s[i] = "." /\ s[i + 1] = ".")

\* [IVXLCDM]+
IsRoman(s) == s # <<>> /\ \A i \in DOMAIN s : s[i] \in RomanLetters

\* the CJK alternative: ordinal prefix, kanji digits, chapter sign
IsChapter(s) ==
    /\ Len(s) >= 3
    /\ s[1] = "U+7B2C"
    /\ s[Len(s)] = "U+7AE0"
    /\ \A i \in 2..(Len(s) - 1) : s[i] \in KanjiDigits

\* the three alternatives of the group "num"
IsNumeral(s) == IsDotted(s) \/ IsRoman(s) \/ IsChapter(s)

NoMatch == <<"no match">>

\* What follows the group in the pattern as compiled: the raw string holds
\* the two characters \\ before b, which the regex reads as an escaped
\* backslash followed by the letter b.
FollowedByPatternTail(text, k) ==
    /\ Len(text) >= k + 2
    /\ text[k + 1] = "\\"
    /\ text[k + 2] = "b"

\* NUM_PAT.match(text).group("num"), or NoMatch.  No numeral holds a
\* backslash, so at most one prefix can be followed by the pattern's tail.
NumPatMatch(text) ==
    LET ks == {k \in 1..Len(text) :
                  IsNumeral(SubSeq(text, 1, k)) /\ FollowedByPatternTail(text, k)}
    IN  IF ks = {} THEN NoMatch
        ELSE SubSeq(text, 1, CHOOSE k \in ks : \A j \in ks : j <= k)

\* ------------------------------------------------------------ assign_levels

\* "return None" of numbering_level; like None, falsy in "if n_level"
NoLevel == 0

\* the None that detect_title returns
NoTitle == <<"None">>

CountDots(num) == Cardinality({i \in DOMAIN num : num[i] = "."})

\* thresholds: the three largest distinct sizes, padded with the smallest
Thresholds(cs) ==
    LET sizes == SortAsc({cs[i].avg_font_size : i \in DOMAIN cs})
        n     == Len(sizes)
    IN  IF n >= 3 THEN <<sizes[n], sizes[n - 1], sizes[n - 2]>>
        ELSE Reverse(sizes) \o [i \in 1..(3 - n) |-> sizes[1]]

font_level(size, thresholds) ==
    IF size >= thresholds[1] THEN 1
    ELSE IF size >= thresholds[2] THEN 2
    ELSE 3

numbering_level(text) ==
    LET num == NumPatMatch(text)
    IN  IF num # NoMatch
        THEN IF \E i \in DOMAIN num : num[i] = "."
             THEN Min2(CountDots(num) + 1, 3)
             ELSE IF \E i \in DOMAIN num : num[i] \in KanjiDigits
             THEN 1
             ELSE 1
        ELSE NoLevel

\* level = min(f_level, n_level) if n_level else f_level
CombinedLevel(f_level, n_level) ==
    IF n_level # NoLevel THEN Min2(f_level, n_level) ELSE f_level

\* Indent tiebreaker
IndentTieBreak(level, indent) ==
    IF level > 1 /\ indent > 10 THEN Min2(level + 1, 3) ELSE level

\* the level of one candidate, as computed in the loop body
LevelOf(l, thresholds) ==
    IndentTieBreak(
        CombinedLevel(font_level(l.avg_font_size, thresholds),
                      numbering_level(l.text)),
        l.indent)

\* round(x) of Python 3 on a value given in half points: halves go to the
\* even neighbour
PyRound(top) ==
    IF top % 2 = 0 THEN top \div 2
    ELSE LET lo == (top - 1) \div 2
         IN  IF lo % 2 = 0 THEN lo ELSE lo + 1

KeyWithoutPage(l) == <<Strip(l.text), 0, PyRound(l.top)>>

\* key = (l["text"].strip(), l["page"], round(l["top"]))
Key(l) == <<Strip(l.text), l.page, PyRound(l.top)>>

HName(level) == <<"H1", "H2", "H3">>[level]

Entry(l, level) == [level |-> HName(level), text |-> Strip(l.text), page |-> l.page]

\* the loop "for l in cands": st = [outline, seen] after the first i candidates
RECURSIVE EmitLoop(_, _, _)
EmitLoop(cs, thresholds, i) ==
    IF i = 0 THEN [outline |-> <<>>, seen |-> {}]
    ELSE LET st == EmitLoop(cs, thresholds, i - 1)
             l  == cs[i]
         IN  IF Key(l) \in st.seen THEN st
             ELSE [outline |-> Append(st.outline, Entry(l, LevelOf(l, thresholds))),
                   seen    |-> st.seen \cup {Key(l)}]

Emitted(cs) == EmitLoop(cs, Thresholds(cs), Len(cs)).outline

PromoteLast(o) ==
    IF (~ \E i \in DOMAIN o : o[i].level = "H1") /\ o # <<>>
    THEN [o EXCEPT ![Len(o)].level = "H1"]
    ELSE o

\* Guarantee at least one H1
GuaranteeH1(o) ==
    IF (~ \E i \in DOMAIN o : o[i].level = "H1") /\ o # <<>>
    THEN [o EXCEPT ![1].level = "H1"]
    ELSE o

\* one iteration of "for i, o in enumerate(outline)": the entries before i
\* are read as the earlier iterations left them
DemoteAt(o, i) ==
    IF o[i].level = "H3" /\ ~ \E j \in 1..(i - 1) : o[j].level = "H2"
    THEN [o EXCEPT ![i].level = "H2"]
    ELSE o

RECURSIVE DemoteUpTo(_, _)
DemoteUpTo(o, n) == IF n = 0 THEN o ELSE DemoteAt(DemoteUpTo(o, n - 1), n)

RECURSIVE DemoteSkippingFirst(_, _)
DemoteSkippingFirst(o, n) ==
    IF n <= 1 THEN o ELSE DemoteAt(DemoteSkippingFirst(o, n - 1), n)

DemoteFromSecond(o) == DemoteSkippingFirst(o, Len(o))

\* Demote isolated H3s
DemoteIsolatedH3(o) == DemoteUpTo(o, Len(o))

\* assign_levels(cands)
assign_levels(cs) ==
    IF cs = <<>> THEN <<>>
    ELSE DemoteIsolatedH3(GuaranteeH1(Emitted(cs)))

Levels(o) == [i \in DOMAIN o |-> o[i].level]

\* ------------------------------------------------------------ assign_levels, step by step

\* Candidate texts: "A", " A" (same text once trimmed), "1. A" (a numbered
\* heading) and "1.2\b" (the text the compiled pattern accepts).
TextA      == <<"A">>
TextPadA   == <<" ", "A">>
TextNum    == <<"1", ".", " ", "A">>
TextRawNum == <<"1", ".", "2", "\\", "b">>

\* (text, page, top): the first two share a key (2.0 and 2.5 both round to
\* 2), the next two differ from the first by page only and by top only.
KeyVariants ==
    { <<TextA, 1, 4>>, <<TextPadA, 1, 5>>, <<TextA, 2, 4>>, <<TextA, 1, 7>>,
      <<TextNum, 1, 4>>, <<TextRawNum, 1, 4>> }

CandSizes == {10, 12, 14}

CandIndents == {0, 20}

MkCand(kv, size, indent) ==
    [text |-> kv[1], page |-> kv[2], top |-> kv[3],
     avg_font_size |-> size, indent |-> indent]

\* every size and indent for "A" and "1. A" at the first position, every
\* size for " A"; the other positions and the raw numeral at the smallest
\* size, unindented
CandSet ==
    {MkCand(kv, s, d) : kv \in {<<TextA, 1, 4>>, <<TextNum, 1, 4>>},
                        s \in CandSizes, d \in CandIndents}
    \cup {MkCand(<<TextPadA, 1, 5>>, s, 0) : s \in CandSizes}
    \cup {MkCand(kv, 10, 0) : kv \in KeyVariants}

InitLevels ==
    /\ pc = "assign_levels"
    /\ cands \in SeqsUpTo(CandSet, MaxCands)
    /\ outline = <<>>
    /\ pages = <<>> /\ meta = <<>> /\ lines = <<>> /\ scored = <<>> /\ title = NoTitle
    /\ dir = {} /\ pdfs = <<>> /\ idx = 0 /\ written = <<>> /\ files = <<>> /\ stderr = <<>>

othersLevels ==
    <<cands, pages, meta, lines, scored, title, dir, pdfs, idx, written, files, stderr>>

\* if not cands: return []
ReturnEmpty ==
    /\ pc = "assign_levels"
    /\ cands = <<>>
    /\ outline' = <<>>
    /\ pc' = "returned"
    /\ UNCHANGED othersLevels

\* lines 194-237: thresholds, then the loop over the candidates
EmitEntries ==
    /\ pc = "assign_levels"
    /\ cands # <<>>
    /\ outline' = Emitted(cands)
    /\ pc' = "emitted"
    /\ UNCHANGED othersLevels

\* lines 238-240
PromoteFirst ==
    /\ pc = "emitted"
    /\ outline' = GuaranteeH1(outline)
    /\ pc' = "promoted"
    /\ UNCHANGED othersLevels

\* lines 241-244
DemotePass ==
    /\ pc = "promoted"
    /\ outline' = DemoteIsolatedH3(outline)
    /\ pc' = "repaired"
    /\ UNCHANGED othersLevels

\* return outline
ReturnOutline ==
    /\ pc = "repaired"
    /\ pc' = "returned"
    /\ UNCHANGED <<outline, othersLevels>>

NextLevels == ReturnEmpty \/ EmitEntries \/ PromoteFirst \/ DemotePass \/ ReturnOutline

SpecLevels == InitLevels /\ [][NextLevels]_vars

\* ------------------------------------------------------------ claims on assign_levels

Returned == pc \in {"repaired", "returned"}

HasLevel(o, h) == \E i \in DOMAIN o : o[i].level = h

\* the outline as the loop and the H1 guarantee left it, before the H3 pass
BeforeDemotion == IF cands = <<>> THEN <<>> ELSE GuaranteeH1(Emitted(cands))

\* C1: in the outline assign_levels returns, every H3 entry has an H2 entry
\* at an earlier index; levels [H3, H2, H1] before the H3 pass come out as
\* [H2, H2, H1].
C1_NoH3WithoutEarlierH2 ==
    Returned =>
        /\ \A i \in DOMAIN outline :
               outline[i].level = "H3" => \E j \in 1..(i - 1) : outline[j].level = "H2"
        /\ Levels(BeforeDemotion) = <<"H3", "H2", "H1">>
               => Levels(outline) = <<"H2", "H2", "H1">>

C1_Witness ==
    /\ pc = "returned"
    /\ Levels(BeforeDemotion) = <<"H3", "H2", "H1">>
    /\ Levels(outline) = <<"H2", "H2", "H1">>

\* C2: every non-empty outline holds an H1 from the H1 guarantee on, through
\* the H3 pass and at return; when the loop emitted no H1, the first entry
\* is the H1.
C2_NonEmptyOutlineHasH1 ==
    (pc \in {"promoted", "repaired", "returned"} /\ outline # <<>>) =>
        /\ HasLevel(outline, "H1")
        /\ ~HasLevel(Emitted(cands), "H1") => outline[1].level = "H1"

C2_Witness ==
    /\ pc = "returned"
    /\ Len(outline) >= 2
    /\ ~HasLevel(Emitted(cands), "H1")
    /\ outline[1].level = "H1"
    /\ \E i \in DOMAIN outline :
           BeforeDemotion[i].level = "H3" /\ outline[i].level = "H2"

\* characters that \w matches, among those of the model
WordChars ==
    Digits \cup Range(UpperLetters) \cup Range(LowerLetters) \cup {"_"}
        \cup KanjiDigits \cup {"U+7B2C", "U+7AE0"}

\* a numeral at the start of the text that ends at a word boundary: the
\* numbering pattern of the specification ("1. Introduction", "2.1 Scope")
NumberingPrefixes(text) ==
    {k \in 1..Len(text) :
        /\ IsNumeral(SubSeq(text, 1, k))
        /\ (k = Len(text) \/ text[k + 1] \notin WordChars)}

StartsWithNumbering(text) == NumberingPrefixes(text) # {}

\* depth of the numeral the text starts with: dots + 1 capped at 3, and 1
\* for a bare numeral, a Roman numeral or a CJK marker
NumberingDepth(text) ==
    LET ks  == NumberingPrefixes(text)
        num == SubSeq(text, 1, CHOOSE k \in ks : \A j \in ks : j <= k)
    IN  IF \E i \in DOMAIN num : num[i] = "." THEN Min2(CountDots(num) + 1, 3) ELSE 1

\* C5: a candidate whose text starts with a numbering pattern is recognised
\* by assign_levels: its level is min(font-level, numbering-level), then the
\* indent tie-break; with numbering-level 1 it is level 1 whatever its font.
C5_NumberedTextIsRecognised ==
    pc = "emitted" =>
        \A i \in DOMAIN cands :
            StartsWithNumbering(cands[i].text) =>
                LevelOf(cands[i], Thresholds(cands))
                    = IndentTieBreak(
                          Min2(font_level(cands[i].avg_font_size, Thresholds(cands)),
                               NumberingDepth(cands[i].text)),
                          cands[i].indent)

\* the indices of the candidates that no earlier candidate shares its
\* (trimmed text, page, rounded top) with
FirstOfKey ==
    {i \in DOMAIN cands :
        \A j \in 1..(i - 1) :
            <<Strip(cands[j].text), cands[j].page, PyRound(cands[j].top)>>
                # <<Strip(cands[i].text), cands[i].page, PyRound(cands[i].top)>>}

\* C7: the outline is the candidate sequence with later duplicates of a
\* (trimmed text, page, rounded top) removed: same order, one entry per
\* key, each entry with its candidate's trimmed text and page.
C7_OneEntryPerKey ==
    pc \in {"emitted", "promoted", "repaired", "returned"} =>
        LET order == SortAsc(FirstOfKey)
        IN  /\ Len(outline) = Len(order)
            /\ \A k \in DOMAIN outline :
                   /\ outline[k].text = Strip(cands[order[k]].text)
                   /\ outline[k].page = cands[order[k]].page

C7_Witness ==
    /\ pc = "returned"
    /\ Len(outline) = 2
    /\ Len(cands) = 3
    /\ outline[1].page # outline[2].page
    /\ \E i, j \in DOMAIN cands : i < j /\ cands[i] # cands[j] /\ Key(cands[i]) = Key(cands[j])

\* ------------------------------------------------------------ scored_threshold

Scores(sc) == [i \in DOMAIN sc |-> sc[i].score]

Fraction(n, d) == [num |-> n, den |-> d]

\* statistics.mean(scores), exact
Mean(scores) == Fraction(SumSeq(scores), Len(scores))

PopulationVariance(scores) ==
    LET n == Len(scores)
        S == SumSeq(scores)
    IN  Fraction(SumSeq([i \in DOMAIN scores |-> (n * scores[i] - S) * (n * scores[i] - S)]),
                 n * n * n)

\* the square of statistics.stdev(scores), exact: the squared deviations
\* from the mean, summed and divided by n - 1
SampleVariance(scores) ==
    LET n == Len(scores)
        S == SumSeq(scores)
    IN  Fraction(SumSeq([i \in DOMAIN scores |-> (n * scores[i] - S) * (n * scores[i] - S)]),
                 n * n * (n - 1))

\* the value mean + stdev, kept as the mean and the square of the stdev
scored_threshold(sc) ==
    LET scores == Scores(sc)
    IN  IF scores = <<>> THEN [mean |-> Fraction(0, 1), var |-> Fraction(0, 1)]
        ELSE [mean |-> Mean(scores),
              var  |-> IF Len(scores) > 1 THEN SampleVariance(scores)
                       ELSE Fraction(0, 1)]

Exceeds(score, th) ==
    LET d == score * th.mean.den - th.mean.num
    IN  d > 0 /\ d * d * th.var.den > th.var.num * th.mean.den * th.mean.den

\* score >= threshold, for threshold = mean + sqrt(var)
ReachesThreshold(score, th) ==
    LET d == score * th.mean.den - th.mean.num
    IN  d >= 0 /\ d * d * th.var.den >= th.var.num * th.mean.den * th.mean.den

\* cands = [l for l in scored if l["score"] >= scored_threshold(scored)]
SelectCandidates(sc) ==
    SelectSeq(sc, LAMBDA l : ReachesThreshold(l.score, scored_threshold(sc)))

\* ------------------------------------------------------------ detect_title

\* scored[:20]
TitleScanLines == 20

Take(s, n) == SubSeq(s, 1, Min2(n, Len(s)))

\* meta_title = meta_title.strip() if meta_title else ""
MetaTitle(m) == IF m # <<>> THEN Strip(m) ELSE <<>>

MetaTitleNonEmpty(m, sc) == MetaTitle(m) # <<>>

MetaTitleMatchesCaseSensitive(m, sc) ==
    /\ MetaTitle(m) # <<>>
    /\ \E i \in DOMAIN Take(sc, TitleScanLines) : Contains(sc[i].text, MetaTitle(m))

\* 1. the condition of the metadata path
MetaTitleMatches(m, sc) ==
    /\ MetaTitle(m) # <<>>
    /\ \E i \in DOMAIN Take(sc, TitleScanLines) :
           Contains(StrLower(sc[i].text), StrLower(MetaTitle(m)))

OnPage1(s) == SelectSeq(s, LAMBDA l : l.page = 1)

\* max(page1, key=score): the first entry of the largest score
BestOf(s) ==
    s[CHOOSE i \in DOMAIN s :
          /\ \A j \in DOMAIN s : s[j].score <= s[i].score
          /\ \A j \in 1..(i - 1) : s[j].score < s[i].score]

\* sorted(list) of integers, duplicates kept
RECURSIVE SortList(_)
SortList(s) ==
    IF s = <<>> THEN <<>>
    ELSE LET i == CHOOSE k \in DOMAIN s : \A j \in DOMAIN s : s[k] <= s[j]
         IN  <<s[i]>> \o SortList(SubSeq(s, 1, i - 1) \o SubSeq(s, i + 1, Len(s)))

\* twice statistics.median(values)
TwiceMedian(values) ==
    LET s == SortList(values)
        n == Len(s)
    IN  IF n % 2 = 1 THEN 2 * s[(n + 1) \div 2]
        ELSE s[n \div 2] + s[n \div 2 + 1]

MaxOf(S) == CHOOSE x \in S : \A y \in S : y <= x

\* 3. the test of one page-1 line: larger than the median size and centred
\* within 15% of the page width (|(x0 + x1)/2 - w/2| < 0.15 w, times 20)
LargeAndCentred(l, page1_lines) ==
    LET page_width == MaxOf({page1_lines[i].x1 : i \in DOMAIN page1_lines})
    IN  /\ 2 * l.avg_font_size
              > TwiceMedian([i \in DOMAIN page1_lines |-> page1_lines[i].avg_font_size])
        /\ 10 * Abs(l.x0 + l.x1 - page_width) < 3 * page_width

detect_title(m, sc, cs) ==
    LET page1       == OnPage1(cs)
        page1_lines == OnPage1(sc)
        centred     == {i \in DOMAIN page1_lines : LargeAndCentred(page1_lines[i], page1_lines)}
    IN  IF MetaTitleMatches(m, sc) THEN Collapse(MetaTitle(m))
        ELSE IF page1 # <<>> /\ BestOf(page1).score > 0 THEN Collapse(BestOf(page1).text)
        ELSE IF centred # {}
             THEN Collapse(page1_lines[CHOOSE i \in centred : \A j \in centred : i <= j].text)
        ELSE IF cs # <<>> THEN Collapse(cs[1].text)
        ELSE NoTitle

\* ------------------------------------------------------------ process_pdf

\* px tolerance for header/footer repeat detection (declared, never read)
HEADER_TOL_Y == 10

MinOf(S) == CHOOSE x \in S : \A y \in S : x <= y

\* extract_lines(page, page_num): a page is given by its grouped lines, in
\* reading order; the page number and the indent against the leftmost word
\* of the page are added here.  A page without words gives no line.
extract_lines(page, page_num) ==
    IF page = <<>> THEN <<>>
    ELSE [i \in DOMAIN page |->
             [page |-> page_num, text |-> page[i].text, top |-> page[i].top,
              x0 |-> page[i].x0, x1 |-> page[i].x1,
              avg_font_size |-> page[i].avg_font_size,
              indent |-> page[i].x0 - MinOf({page[j].x0 : j \in DOMAIN page})]]

\* all_lines after the loop over pdf.pages
RECURSIVE ExtractAll(_, _)
ExtractAll(ps, n) ==
    IF n = 0 THEN <<>> ELSE ExtractAll(ps, n - 1) \o extract_lines(ps[n], n)

\* drop_repeating_headers(lines)
drop_repeating_headers(ls) == ls

\* merge_wrapped_heading_lines(lines)
merge_wrapped_heading_lines(ls) == ls

\* score_lines(lines), given the score s[i] it computes for each line: the
\* lines themselves, each with its score added
score_lines(ls, s) ==
    IF ls = <<>> THEN <<>>
    ELSE [i \in DOMAIN ls |->
             [page |-> ls[i].page, text |-> ls[i].text, top |-> ls[i].top,
              x0 |-> ls[i].x0, x1 |-> ls[i].x1,
              avg_font_size |-> ls[i].avg_font_size,
              indent |-> ls[i].indent, score |-> s[i]]]

\* process_pdf(pdf_path) for a file that opens: ps its pages, m its
\* metadata title, s the scores score_lines computes
process_pdf(ps, m, s) ==
    LET ls == merge_wrapped_heading_lines(
                  drop_repeating_headers(ExtractAll(ps, Len(ps))))
        sc == score_lines(ls, s)
        cs == SelectCandidates(sc)
    IN  [title |-> detect_title(m, sc, cs), outline |-> assign_levels(cs)]

\* Grouped lines of a page, as extract_lines finds them: tops more than 2.5
\* points apart.
LineTitle == [text |-> <<"A", "b">>, top |-> 40, x0 |-> 150, x1 |-> 250, avg_font_size |-> 14]
LineBody  == [text |-> <<"a", " ", "b">>, top |-> 100, x0 |-> 0, x1 |-> 400, avg_font_size |-> 10]
LineNote  == [text |-> <<"c">>, top |-> 160, x0 |-> 20, x1 |-> 100, avg_font_size |-> 10]

LineOrder == <<LineTitle, LineBody, LineNote>>

\* the pages: any selection of the three lines, top to bottom
PageSet ==
    {SelectSeq(LineOrder, LAMBDA l : l \in chosen) : chosen \in SUBSET Range(LineOrder)}

TotalLines(ps) == SumSeq([i \in DOMAIN ps |-> Len(ps[i])])

DocSet == {ps \in SeqsUpTo(PageSet, MaxPages) : TotalLines(ps) <= MaxLines}

\* metadata titles: none or empty, blank, "aB " (the first line's text in
\* another case, with a trailing blank), "z" (in no line)
MetaSet == { <<>>, <<" ">>, <<"a", "B", " ">>, <<"z">> }

\* scores a line may get, in quarter points
ScoreSet == {-1, 0, 4}

Init ==
    /\ pc = "process_pdf"
    /\ pages \in DocSet
    /\ meta \in MetaSet
    /\ lines = <<>> /\ scored = <<>> /\ cands = <<>>
    /\ title = NoTitle /\ outline = <<>>
    /\ dir = {} /\ pdfs = <<>> /\ idx = 0 /\ written = <<>> /\ files = <<>> /\ stderr = <<>>

mainVars == <<dir, pdfs, idx, written, files, stderr>>

\* lines 10-14
ExtractLines ==
    /\ pc = "process_pdf"
    /\ lines' = ExtractAll(pages, Len(pages))
    /\ pc' = "extracted"
    /\ UNCHANGED <<pages, meta, scored, cands, title, outline, mainVars>>

\* line 16
DropRepeatingHeaders ==
    /\ pc = "extracted"
    /\ lines' = drop_repeating_headers(lines)
    /\ pc' = "filtered"
    /\ UNCHANGED <<pages, meta, scored, cands, title, outline, mainVars>>

\* line 17
MergeWrappedHeadingLines ==
    /\ pc = "filtered"
    /\ lines' = merge_wrapped_heading_lines(lines)
    /\ pc' = "merged"
    /\ UNCHANGED <<pages, meta, scored, cands, title, outline, mainVars>>

\* line 19, score_lines(lines): no line gives no score; otherwise every
\* line gets a score, whose arithmetic (z-score of the font size plus the
\* additive signals) is left open
ScoreLines ==
    /\ pc = "merged"
    /\ \E s \in [DOMAIN lines -> ScoreSet] : scored' = score_lines(lines, s)
    /\ pc' = "scored"
    /\ UNCHANGED <<pages, meta, lines, cands, title, outline, mainVars>>

\* line 20
Select ==
    /\ pc = "scored"
    /\ cands' = SelectCandidates(scored)
    /\ pc' = "selected"
    /\ UNCHANGED <<pages, meta, lines, scored, title, outline, mainVars>>

\* line 22
DetectTitle ==
    /\ pc = "selected"
    /\ title' = detect_title(meta, scored, cands)
    /\ pc' = "titled"
    /\ UNCHANGED <<pages, meta, lines, scored, cands, outline, mainVars>>

\* line 23
AssignLevels ==
    /\ pc = "titled"
    /\ outline' = assign_levels(cands)
    /\ pc' = "levelled"
    /\ UNCHANGED <<pages, meta, lines, scored, cands, title, mainVars>>

\* line 25
ReturnResult ==
    /\ pc = "levelled"
    /\ pc' = "done"
    /\ UNCHANGED <<pages, meta, lines, scored, cands, title, outline, mainVars>>

Next ==
    \/ ExtractLines
    \/ DropRepeatingHeaders
    \/ MergeWrappedHeadingLines
    \/ ScoreLines
    \/ Select
    \/ DetectTitle
    \/ AssignLevels
    \/ ReturnResult

Spec == Init /\ [][Next]_vars

\* ------------------------------------------------------------ claims on process_pdf

Selected == pc \in {"selected", "titled", "levelled", "done"}

Titled == pc \in {"titled", "levelled", "done"}

\* C4: a scored line is a candidate iff its score x reaches mean + sample
\* stdev of all n scores, i.e. n x >= S and (n x - S)^2 (n - 1) >= n (n Q - S^2)
\* for S the sum and Q the sum of squares; with fewer than 2 lines the stdev
\* is 0, so no line gives threshold 0 and no candidate, and a single line is
\* always a candidate.
C4_CandidateIffMeanPlusStdev ==
    Selected =>
        LET x == Scores(scored)
            n == Len(x)
            S == SumSeq(x)
            Q == SumSeq([i \in DOMAIN x |-> x[i] * x[i]])
        IN  /\ \A i \in DOMAIN scored :
                   (scored[i] \in Range(cands)) <=>
                       IF n < 2 THEN n * x[i] >= S
                       ELSE /\ n * x[i] >= S
                            /\ (n * x[i] - S) * (n * x[i] - S) * (n - 1) >= n * (n * Q - S * S)
            /\ Range(cands) \subseteq Range(scored)
            /\ n = 0 => /\ cands = <<>>
                        /\ scored_threshold(scored).mean.num = 0
                        /\ scored_threshold(scored).var.num = 0
            /\ n = 1 => cands = scored

C4_Witness ==
    /\ pc = "done"
    /\ Len(scored) = 3
    /\ Len(cands) = 1
    /\ \E i, j \in DOMAIN scored : scored[i].score = 0 /\ scored[j].score = -1

\* C10: with exactly two scored lines of different scores no line is a
\* candidate and the outline is empty; with two equal scores both lines
\* are candidates.
C10_TwoLines ==
    (Selected /\ Len(scored) = 2) =>
        /\ scored[1].score # scored[2].score =>
               /\ cands = <<>>
               /\ pc \in {"levelled", "done"} => outline = <<>>
        /\ scored[1].score = scored[2].score => cands = scored

C10_Witness ==
    /\ pc = "done"
    /\ Len(scored) = 2
    /\ scored[1].score > scored[2].score
    /\ outline = <<>>

\* C6: a document with zero pages or zero extracted words gives
\* {title: null, outline: []} whatever the metadata title: nothing is
\* scored and nothing is selected.
C6_EmptyDocument ==
    (TotalLines(pages) = 0 /\ pc \in {"scored", "selected", "titled", "levelled", "done"}) =>
        /\ scored = <<>>
        /\ Selected => cands = <<>>
        /\ Titled => title = NoTitle
        /\ pc = "done" => outline = <<>>

C6_Witness ==
    /\ pc = "done"
    /\ Len(pages) >= 1
    /\ TotalLines(pages) = 0
    /\ Strip(meta) # <<>>
    /\ title = NoTitle
    /\ outline = <<>>

\* the metadata title t found, whatever the case, in one of the first 20
\* scored lines
FoundInFirstLines(t) ==
    \E i \in 1..Min2(20, Len(scored)) : Contains(StrLower(scored[i].text), StrLower(t))

\* C8 as stated: a non-empty metadata title that is, case-insensitively, a
\* substring of one of the first 20 scored lines is returned, whitespace
\* collapsed.
C8_NonEmptyMetaTitleWins ==
    Titled => ((meta # <<>> /\ FoundInFirstLines(meta)) => title = Collapse(meta))

\* C8 as amended: the metadata title is trimmed first; if what is left is
\* non-empty and is, case-insensitively, a substring of one of the first 20
\* scored lines, it is returned with whitespace collapsed, whatever the
\* candidates are; null is returned only when no path succeeds.
C8_TrimmedMetaTitleWins ==
    Titled =>
        /\ (Strip(meta) # <<>> /\ FoundInFirstLines(Strip(meta))) => title = Collapse(meta)
        /\ title = NoTitle =>
               /\ ~(Strip(meta) # <<>> /\ FoundInFirstLines(Strip(meta)))
               /\ cands = <<>>
               /\ \A i \in DOMAIN scored :
                      scored[i].page = 1 => ~LargeAndCentred(scored[i], OnPage1(scored))

C8_Witness ==
    /\ pc = "done"
    /\ Strip(meta) # <<>>
    /\ FoundInFirstLines(Strip(meta))
    /\ title = Collapse(meta)
    /\ title # meta
    /\ \E i \in DOMAIN cands :
           cands[i].page = 1 /\ cands[i].score > 0 /\ Collapse(cands[i].text) # title

\* the pages on which a line of the same normalized text lies within the
\* tolerance of l's vertical position (top is in half points)
PagesRepeating(l, all) ==
    {p \in 1..Len(pages) :
        \E i \in DOMAIN all :
            /\ all[i].page = p
            /\ Collapse(all[i].text) = Collapse(l.text)
            /\ Abs(all[i].top - l.top) <= 2 * HEADER_TOL_Y}

\* a line repeated on more than 50% of the pages (and on two at least)
IsRepeatingHeader(l, all) ==
    /\ Cardinality(PagesRepeating(l, all)) >= 2
    /\ 2 * Cardinality(PagesRepeating(l, all)) > Len(pages)

\* C9: after the header/footer filter no instance is left of a line whose
\* normalized text and vertical position (within 10 points) repeat on more
\* than 50% of the pages; without such a line the sequence is unchanged.
C9_RepeatingHeadersDropped ==
    pc = "filtered" =>
        LET all == ExtractAll(pages, Len(pages))
        IN  /\ \A i \in DOMAIN lines : ~IsRepeatingHeader(lines[i], all)
            /\ (\A i \in DOMAIN all : ~IsRepeatingHeader(all[i], all)) => lines = all

\* ------------------------------------------------------------ main

\* The names input_dir may hold, in the order sorted() gives their paths
\* (upper case before lower case): a.PDF, a.pdf, b.pdf, c.txt.
NameTable ==
    << [stem |-> <<"a">>, suffix |-> <<".", "P", "D", "F">>],
       [stem |-> <<"a">>, suffix |-> <<".", "p", "d", "f">>],
       [stem |-> <<"b">>, suffix |-> <<".", "p", "d", "f">>],
       [stem |-> <<"c">>, suffix |-> <<".", "t", "x", "t">>] >>

\* p.suffix.lower() == ".pdf"
IsPdf(p) == StrLower(NameTable[p].suffix) = <<".", "p", "d", "f">>

\* sorted(p for p in in_dir.iterdir() if p.suffix.lower() == ".pdf")
SortedPdfs(d) == SortAsc({p \in d : IsPdf(p)})

\* out_dir / (pdf_path.stem + ".json")
OutPath(p) == NameTable[p].stem \o <<".", "j", "s", "o", "n">>

\* the files that open, as process_pdf reads them: pages, metadata title,
\* and the scores of the lines
ReadableSet ==
    { [pages |-> <<>>, meta |-> <<"z">>, scores |-> <<>>],
      [pages |-> <<<<LineTitle>>>>, meta |-> <<>>, scores |-> <<4>>],
      [pages |-> <<<<LineTitle, LineBody>>, <<LineNote>>>>, meta |-> <<>>, scores |-> <<0, 0, 0>>] }

\* result = {"title": None, "outline": []}
EmptyResult == [title |-> NoTitle, outline |-> <<>>]

\* the except clause that only prints: result keeps the previous file's value
PreviousResult == IF written = <<>> THEN EmptyResult ELSE written[Len(written)].content

\* the result the except clause of the loop sets
ExceptResult == EmptyResult

InitMain ==
    /\ pc = "main"
    /\ dir \in SUBSET (DOMAIN NameTable)
    /\ pdfs = <<>> /\ idx = 0 /\ written = <<>> /\ files = <<>> /\ stderr = <<>>
    /\ pages = <<>> /\ meta = <<>> /\ lines = <<>> /\ scored = <<>> /\ cands = <<>>
    /\ title = NoTitle /\ outline = <<>>

pdfVars == <<pages, meta, lines, scored, cands, title, outline>>

\* lines 13-19: list the PDFs, warn when there is none
ListPdfs ==
    /\ pc = "main"
    /\ pdfs' = SortedPdfs(dir)
    /\ stderr' = IF SortedPdfs(dir) = <<>> THEN <<<<"No PDFs found">>>> ELSE <<>>
    /\ idx' = 1
    /\ pc' = "loop"
    /\ UNCHANGED <<dir, written, files, pdfVars>>

\* lines 28-30: open out_path for writing and dump the result
WriteJson(p, result) ==
    /\ written' = Append(written, [pdf |-> p, path |-> OutPath(p), content |-> result])
    /\ files' = (OutPath(p) :> result) @@ files

\* lines 21-30, process_pdf returns
ProcessReturns ==
    /\ pc = "loop"
    /\ idx <= Len(pdfs)
    /\ \E f \in ReadableSet :
           WriteJson(pdfs[idx], process_pdf(f.pages, f.meta, f.scores))
    /\ idx' = idx + 1
    /\ UNCHANGED <<pc, dir, pdfs, stderr, pdfVars>>

\* lines 21-30, process_pdf raises: the file does not open or does not parse
ProcessRaises ==
    /\ pc = "loop"
    /\ idx <= Len(pdfs)
    /\ stderr' = Append(stderr, <<"ERROR processing", pdfs[idx]>>)
    /\ WriteJson(pdfs[idx], ExceptResult)
    /\ idx' = idx + 1
    /\ UNCHANGED <<pc, dir, pdfs, pdfVars>>

\* the list is exhausted: main returns
LoopEnds ==
    /\ pc = "loop"
    /\ idx > Len(pdfs)
    /\ pc' = "exit"
    /\ UNCHANGED <<dir, pdfs, idx, written, files, stderr, pdfVars>>

NextMain == ListPdfs \/ ProcessReturns \/ ProcessRaises \/ LoopEnds

SpecMain == InitMain /\ [][NextMain]_vars

\* ------------------------------------------------------------ claims on main

Raised(p) == \E k \in DOMAIN stderr : stderr[k] = <<"ERROR processing", p>>

====
